---- MODULE Spec2Model ----
(***************************************************************************)
(* Model of the numeric sanitisation and sliding-window statistics of      *)
(* general_utilities.py: clean_number, clean_data, clean_data_remove,      *)
(* moving_average and moving_median, with parse_cutoffs_into_ranges and    *)
(* the FrozenClass mix-in.                                                 *)
(*                                                                         *)
(* A number is a record [cls, n, d]: cls is "nan", "inf", "neginf" or      *)
(* "fin"; a finite number is the rational n/d in lowest terms with d > 0   *)
(* (the module runs under "from __future__ import division", so / is true  *)
(* division; finite doubles are modelled in exact arithmetic).             *)
(***************************************************************************)
EXTENDS Integers, Sequences, FiniteSets, TLC

VARIABLES fn, args, pc, i, vals, policy, exc, ret, obj, hist

vars == <<fn, args, pc, i, vals, policy, exc, ret, obj, hist>>

\* Longest list / largest set or dict handed to a function.
MaxLen == 3

----------------------------------------------------------------------------
(* Numbers *)

Abs(k) == IF k < 0 THEN -k ELSE k

RECURSIVE GCD(_, _)
GCD(a, b) == IF b = 0 THEN a ELSE GCD(b, a % b)

\* the finite number n/d (d # 0), in lowest terms with a positive denominator
Rat(n, d) ==
    LET g == GCD(Abs(n), Abs(d))
        s == IF d < 0 THEN -1 ELSE 1
    IN  [cls |-> "fin", n |-> (s * n) \div g, d |-> (s * d) \div g]

Num(k) == Rat(k, 1)

NaN == [cls |-> "nan", n |-> 0, d |-> 1]

PosInf == [cls |-> "inf", n |-> 0, d |-> 1]

NegInf == [cls |-> "neginf", n |-> 0, d |-> 1]

\* Python's None (an argument that was not supplied, or no return value)
None == [cls |-> "none", n |-> 0, d |-> 1]

IsFinite(x) == x.cls = "fin"

\* numpy.isnan
isnan(x) == x.cls = "nan"

\* numpy.isinf: true of both infinities
isinf(x) == x.cls \in {"inf", "neginf"}

\* numpy.isneginf
isneginf(x) == x.cls = "neginf"

\* x < y on doubles: every comparison with NaN is false
Lt(x, y) ==
    CASE isnan(x) \/ isnan(y) -> FALSE
      [] x.cls = "neginf"     -> y.cls # "neginf"
      [] x.cls = "inf"        -> FALSE
      [] y.cls = "neginf"     -> FALSE
      [] y.cls = "inf"        -> TRUE
      [] OTHER                -> x.n * y.d < y.n * x.d

\* x <= y on doubles
Le(x, y) == ~isnan(x) /\ ~isnan(y) /\ ~Lt(y, x)

\* x == y on doubles (NaN equals nothing)
NumEq(x, y) == Le(x, y) /\ Le(y, x)

\* x + y, x - y on finite numbers
Add(x, y) == Rat(x.n * y.d + y.n * x.d, x.d * y.d)

Sub(x, y) == Rat(x.n * y.d - y.n * x.d, x.d * y.d)

\* x / w for a finite x and a non-zero integer w (true division)
DivInt(x, w) == Rat(x.n, x.d * w)

\* x * (p/q) for positive p, q: an infinity stays itself
Scale(x, p, q) == IF IsFinite(x) THEN Rat(x.n * p, x.d * q) ELSE x

RECURSIVE sum(_)
sum(s) == IF s = <<>> THEN Num(0) ELSE Add(Head(s), sum(Tail(s)))

\* builtin min: the first smallest item (s non-empty)
RECURSIVE min(_)
min(s) ==
    IF Len(s) = 1 THEN s[1]
    ELSE LET m == min(SubSeq(s, 1, Len(s) - 1))
         IN  IF Lt(s[Len(s)], m) THEN s[Len(s)] ELSE m

\* builtin max: the first largest item (s non-empty)
RECURSIVE max(_)
max(s) ==
    IF Len(s) = 1 THEN s[1]
    ELSE LET m == max(SubSeq(s, 1, Len(s) - 1))
         IN  IF Lt(m, s[Len(s)]) THEN s[Len(s)] ELSE m

Zero == Num(0)

----------------------------------------------------------------------------
(* clean_number *)

\* variant: make_positive tests val < 0, so a zero is kept
clean_number_strict(val, replace_NaN, replace_Inf, replace_NegInf, make_positive) ==
    IF isnan(val) THEN replace_NaN
    ELSE IF isinf(val) THEN replace_Inf
    ELSE IF isneginf(val) THEN replace_NegInf
    ELSE IF make_positive /\ Lt(val, Zero) THEN replace_NegInf
    ELSE val

clean_number(val, replace_NaN, replace_Inf, replace_NegInf, make_positive) ==
    IF isnan(val) THEN replace_NaN
    ELSE IF isinf(val) THEN replace_Inf
    ELSE IF isneginf(val) THEN replace_NegInf
    ELSE IF make_positive /\ Le(val, Zero) THEN replace_NegInf
    ELSE val

----------------------------------------------------------------------------
(* Collections: [kind, items].  items is a sequence for a list or tuple, a *)
(* set for a set, and a function from keys to values for a dict; any other *)
(* kind stands for an argument that is not one of the four.                *)

Coll(kind, items) == [kind |-> kind, items |-> items]

\* the sequences that list every element of the finite set S exactly once
Orders(S) ==
    {o \in [1..Cardinality(S) -> S] : \A a, b \in DOMAIN o : a # b => o[a] # o[b]}

\* the orders in which the elements (set) or keys (dict) can be iterated;
\* a list or tuple has its one order, named by its indices
IterOrders(input_data) ==
    CASE input_data.kind = "set"  -> Orders(input_data.items)
      [] input_data.kind = "dict" -> Orders(DOMAIN input_data.items)
      [] OTHER                    -> {<<>>}

\* variant: the values are zipped with the keys in ascending order, not with
\* the key list they were read by
dict_zip_sorted(key_list, new_list) ==
    LET keys == {key_list[j] : j \in DOMAIN key_list}
        rank(k) == Cardinality({h \in keys : h <= k})
    IN  [k \in keys |-> new_list[rank(k)]]

\* dict(zip(key_list, new_list))
dict_zip(key_list, new_list) ==
    [k \in {key_list[j] : j \in DOMAIN key_list} |->
        new_list[CHOOSE j \in DOMAIN key_list :
                    key_list[j] = k /\ \A h \in DOMAIN key_list : key_list[h] = k => h <= j]]

\* set(new_list)
set_of(new_list) == {new_list[j] : j \in DOMAIN new_list}

----------------------------------------------------------------------------
(* clean_data *)

\* variant: the minimum is always halved, a negative one too
derive_NegInf_halved(input_list, make_positive) ==
    LET Pos(x) == Lt(Zero, x) /\ ~isnan(x)
        NotNegInf(x) == ~isneginf(x) /\ ~isnan(x)
        cand   == IF make_positive THEN SelectSeq(input_list, Pos)
                                   ELSE SelectSeq(input_list, NotNegInf)
    IN  IF cand = <<>> THEN [exc |-> "ValueError", val |-> None]
        ELSE [exc |-> "none", val |-> Scale(min(cand), 1, 2)]

\* the derived replace_NegInf, or "ValueError" in exc when min() gets an empty list
derive_NegInf(input_list, make_positive) ==
    LET Pos(x) == Lt(Zero, x) /\ ~isnan(x)
        NotNegInf(x) == ~isneginf(x) /\ ~isnan(x)
        cand   == IF make_positive THEN SelectSeq(input_list, Pos)
                                   ELSE SelectSeq(input_list, NotNegInf)
    IN  IF cand = <<>> THEN [exc |-> "ValueError", val |-> None]
        ELSE LET m == min(cand)
             IN  [exc |-> "none",
                  val |-> IF Lt(m, Zero) THEN Scale(m, 3, 2) ELSE Scale(m, 1, 2)]

\* the derived replace_Inf, or "ValueError" in exc when max() gets an empty list
derive_Inf(input_list) ==
    LET Fin(x) == ~isinf(x) /\ ~isnan(x)
        cand   == SelectSeq(input_list, Fin)
    IN  IF cand = <<>> THEN [exc |-> "ValueError", val |-> None]
        ELSE [exc |-> "none", val |-> Scale(max(cand), 3, 2)]

\* the value list of the collection, iterated in the given order
value_list(input_data, order) ==
    CASE input_data.kind \in {"list", "tuple"} -> input_data.items
      [] input_data.kind = "set"  -> order
      [] input_data.kind = "dict" -> [j \in DOMAIN order |-> input_data.items[order[j]]]

\* the cleaned value list, back in the input's kind
rebuild(input_data, order, new_list) ==
    CASE input_data.kind \in {"list", "tuple"} -> Coll(input_data.kind, new_list)
      [] input_data.kind = "set"  -> Coll("set", set_of(new_list))
      [] input_data.kind = "dict" -> Coll("dict", dict_zip(order, new_list))

NoPolicy == [replace_NaN |-> None, replace_Inf |-> None, replace_NegInf |-> None]

\* clean_data: [exc, ret, policy], policy being the replacements as resolved
clean_data(input_data, order, replace_NaN, replace_Inf, replace_NegInf, make_positive) ==
    IF input_data.kind \notin {"list", "tuple", "set", "dict"}
    THEN [exc |-> "ValueError", ret |-> <<>>, policy |-> NoPolicy]
    ELSE
      LET input_list == value_list(input_data, order)
          neg == IF replace_NegInf = None THEN derive_NegInf(input_list, make_positive)
                 ELSE [exc |-> "none", val |-> replace_NegInf]
          inf == IF replace_Inf = None THEN derive_Inf(input_list)
                 ELSE [exc |-> "none", val |-> replace_Inf]
      IN  IF neg.exc # "none"
          THEN [exc |-> neg.exc, ret |-> <<>>, policy |-> NoPolicy]
          ELSE IF inf.exc # "none"
          THEN [exc |-> inf.exc, ret |-> <<>>,
                policy |-> [replace_NaN |-> replace_NaN, replace_Inf |-> None,
                            replace_NegInf |-> neg.val]]
          ELSE LET new_list == [j \in DOMAIN input_list |->
                                  clean_number(input_list[j], replace_NaN, inf.val,
                                               neg.val, make_positive)]
               IN  [exc |-> "none",
                    ret |-> <<rebuild(input_data, order, new_list)>>,
                    policy |-> [replace_NaN |-> replace_NaN, replace_Inf |-> inf.val,
                                replace_NegInf |-> neg.val]]

----------------------------------------------------------------------------
(* clean_data_remove *)

\* the inner function bad_value; sw holds the five switches
bad_value(x, sw) ==
    IF sw.remove_NaN /\ isnan(x) THEN TRUE
    ELSE IF sw.remove_Inf /\ isinf(x) THEN TRUE
    ELSE IF sw.remove_NegInf /\ isneginf(x) THEN TRUE
    ELSE IF sw.remove_negative /\ Lt(x, Zero) THEN TRUE
    ELSE IF sw.remove_zero /\ NumEq(x, Zero) THEN TRUE
    ELSE FALSE

\* [x for x in input_data if not bad_value(x)]
keep_good(items, sw) ==
    LET Good(x) == ~bad_value(x, sw) IN SelectSeq(items, Good)

\* a list filtered by deleting from it while iterating over it: the item
\* after a deleted one moves into its place and is never looked at
RECURSIVE delete_in_place(_, _)
delete_in_place(items, sw) ==
    IF items = <<>> THEN <<>>
    ELSE IF ~bad_value(Head(items), sw)
    THEN <<Head(items)>> \o delete_in_place(Tail(items), sw)
    ELSE IF Len(items) = 1 THEN <<>>
    ELSE <<items[2]>> \o delete_in_place(Tail(Tail(items)), sw)

\* variant: lists and tuples are filtered by delete_in_place
clean_data_remove_in_place(input_data, sw) ==
    CASE input_data.kind \in {"list", "tuple"} ->
           [exc |-> "none",
            ret |-> <<Coll(input_data.kind, delete_in_place(input_data.items, sw))>>]
      [] input_data.kind = "set" ->
           [exc |-> "none",
            ret |-> <<Coll("set", {x \in input_data.items : ~bad_value(x, sw)})>>]
      [] input_data.kind = "dict" ->
           [exc |-> "none",
            ret |-> <<Coll("dict",
                           [k \in {h \in DOMAIN input_data.items :
                                      ~bad_value(input_data.items[h], sw)}
                              |-> input_data.items[k]])>>]
      [] OTHER -> [exc |-> "ValueError", ret |-> <<>>]

\* clean_data_remove: [exc, ret]
clean_data_remove(input_data, sw) ==
    CASE input_data.kind \in {"list", "tuple"} ->
           [exc |-> "none", ret |-> <<Coll(input_data.kind, keep_good(input_data.items, sw))>>]
      [] input_data.kind = "set" ->
           [exc |-> "none",
            ret |-> <<Coll("set", {x \in input_data.items : ~bad_value(x, sw)})>>]
      [] input_data.kind = "dict" ->
           [exc |-> "none",
            ret |-> <<Coll("dict",
                           [k \in {h \in DOMAIN input_data.items :
                                      ~bad_value(input_data.items[h], sw)}
                              |-> input_data.items[k]])>>]
      [] OTHER -> [exc |-> "ValueError", ret |-> <<>>]

----------------------------------------------------------------------------
(* moving_average and moving_median *)

\* variant: a window as long as the data is refused
_check_input_ge(data, window_size) == window_size < 1 \/ window_size >= Len(data)

\* _check_input: TRUE when it raises ValueError
_check_input(data, window_size) == window_size < 1 \/ window_size > Len(data)

\* int(x) of the quotient w/2: truncation toward zero
half_window(window_size) ==
    IF window_size >= 0 THEN window_size \div 2 ELSE -((-window_size) \div 2)

\* range(n) as the sequence 0, 1, ..., n-1 (empty when n <= 0)
range(n) == [k \in 1..(IF n > 0 THEN n ELSE 0) |-> k - 1]

\* variant: one index short, range(len(data)-window_size)
_make_window_indices_short(data, window_size) ==
    LET r == range(Len(data) - window_size)
    IN  [k \in DOMAIN r |-> r[k] + half_window(window_size)]

_make_window_indices(data, window_size) ==
    LET r == range(Len(data) - window_size + 1)
    IN  [k \in DOMAIN r |-> r[k] + half_window(window_size)]

\* data[a:b] for 0 <= a <= b <= len(data)
slice(data, a, b) == SubSeq(data, a + 1, b)

\* sum(data[:window_size])/window_size
first_average(data, window_size) ==
    DivInt(sum(slice(data, 0, window_size)), window_size)

\* variant: the value leaving the window is taken one place too far, data[i+1]
new_average_shifted(last, data, k, window_size) ==
    Add(last, DivInt(Sub(data[k + window_size + 1], data[k + 2]), window_size))

\* average_values[-1] + (data[i+window_size]-data[i])/window_size
new_average(last, data, k, window_size) ==
    Add(last, DivInt(Sub(data[k + window_size + 1], data[k + 1]), window_size))

\* s with x inserted before the first item greater than x (s sorted)
RECURSIVE insert(_, _)
insert(x, s) ==
    IF s = <<>> THEN <<x>>
    ELSE IF Lt(x, Head(s)) THEN <<x>> \o s
    ELSE <<Head(s)>> \o insert(x, Tail(s))

RECURSIVE sorted(_)
sorted(s) == IF s = <<>> THEN <<>> ELSE insert(Head(s), sorted(Tail(s)))

\* numpy.median of a non-empty window: the middle item of the sorted window,
\* or the mean of the two middle items
median(w) ==
    LET srt == sorted(w)
        n   == Len(w)
    IN  IF n % 2 = 1 THEN srt[(n + 1) \div 2]
        ELSE DivInt(Add(srt[n \div 2], srt[n \div 2 + 1]), 2)

----------------------------------------------------------------------------
(* parse_cutoffs_into_ranges *)

\* the tuple (vmin, vmax) of a range
Range(vmin, vmax) == [vmin |-> vmin, vmax |-> vmax]

\* [(x,float('inf')) for x in cutoff_list]
RECURSIVE open_ranges(_)
open_ranges(cutoff_list) ==
    IF cutoff_list = <<>> THEN <<>>
    ELSE <<Range(Head(cutoff_list), PosInf)>> \o open_ranges(Tail(cutoff_list))

\* the loop over range(len(cutoff_list)-1), from pass k on: ranges.append of
\* every (cutoff_list[i], cutoff_list[i+1])
RECURSIVE append_adjacent(_, _, _)
append_adjacent(ranges, cutoff_list, k) ==
    IF k >= Len(cutoff_list) - 1 THEN ranges
    ELSE append_adjacent(Append(ranges, Range(cutoff_list[k + 1], cutoff_list[k + 2])),
                         cutoff_list, k + 1)

\* the ranges between adjacent cutoffs, then (cutoff_list[-1], inf); for an
\* empty list cutoff_list[-1] raises IndexError
adjacent_ranges(cutoff_list) ==
    IF cutoff_list = <<>> THEN [exc |-> "IndexError", ret |-> <<>>]
    ELSE [exc |-> "none",
          ret |-> <<Coll("list", Append(append_adjacent(<<>>, cutoff_list, 0),
                                        Range(cutoff_list[Len(cutoff_list)], PosInf)))>>]

\* parse_cutoffs_into_ranges: [exc, ret]
parse_cutoffs_into_ranges(cutoff_list, if_overlapping) ==
    IF ~if_overlapping
    THEN [exc |-> "none", ret |-> <<Coll("list", open_ranges(cutoff_list))>>]
    ELSE adjacent_ranges(cutoff_list)

----------------------------------------------------------------------------
(* FrozenClass: an object is its instance dictionary, a function from the  *)
(* names of its own attributes to their values.                            *)

\* the name the class body's __isfrozen is mangled to
Flag == "_FrozenClass__isfrozen"

\* the attributes every object has from the class: the flag (False), the methods
ClassAttrs == {Flag, "_freeze", "__setattr__"}

EmptyDict == [k \in {} |-> 0]

\* hasattr(self, key): an attribute of the object itself, or of its class
hasattr(d, key) == key \in DOMAIN d \/ key \in ClassAttrs

\* the truth of self.__isfrozen: the object's own value, else the class's False
isfrozen(d) == IF Flag \in DOMAIN d THEN d[Flag] # 0 ELSE FALSE

\* object.__setattr__(self, key, value)
object_setattr(d, key, value) ==
    [k \in DOMAIN d \cup {key} |-> IF k = key THEN value ELSE d[k]]

\* variant: a frozen object refuses every assignment, to an existing attribute too
__setattr__always(d, key, value) ==
    IF isfrozen(d) THEN [exc |-> "TypeError", dict |-> d]
    ELSE [exc |-> "none", dict |-> object_setattr(d, key, value)]

\* FrozenClass.__setattr__: [exc, dict]
__setattr__(d, key, value) ==
    IF isfrozen(d) /\ ~hasattr(d, key) THEN [exc |-> "TypeError", dict |-> d]
    ELSE [exc |-> "none", dict |-> object_setattr(d, key, value)]

\* FrozenClass._freeze: self.__isfrozen = True (True is 1), an assignment like any other
_freeze(d) == __setattr__(d, Flag, 1)

\* the call self._freeze(): an own attribute named _freeze hides the method,
\* and a number is not callable
call_freeze(d) ==
    IF "_freeze" \in DOMAIN d THEN [exc |-> "TypeError", dict |-> d] ELSE _freeze(d)

\* history of an object: its dictionary before the last operation, whether
\* _freeze() has run, and whether an assignment before the last operation
\* named the flag itself
NoHist == [before |-> EmptyDict, freeze_called |-> FALSE, flag_assigned |-> FALSE]

----------------------------------------------------------------------------
(* The inputs the functions are called with *)

\* the names and values of the attributes assigned to an object
AttrNames == {"x", "y", "z", "_freeze", Flag}

AttrValues == {0, 10}

\* the cutoffs handed to parse_cutoffs_into_ranges
CutoffVals == {Num(0), Num(2), Num(5)}

\* the values a collection handed to clean_data / clean_data_remove holds
CleanVals == {NaN, PosInf, NegInf, Num(-2), Num(0), Num(1), Num(3)}

\* the replacement values handed to clean_number
ReplVals == {Num(0), Num(999), Num(-999)}

\* the values a sequence handed to moving_average / moving_median holds
MovingVals == {Num(-1), Num(0), Num(2), Rat(1, 2)}

SeqsOver(V) == UNION {[1..n -> V] : n \in 0..MaxLen}

Kinds == {"list", "tuple", "set", "dict", "number"}

CollsOf(kind) ==
    CASE kind \in {"list", "tuple"} -> {Coll(kind, s) : s \in SeqsOver(CleanVals)}
      [] kind = "set"  -> {Coll(kind, S) : S \in {T \in SUBSET CleanVals : Cardinality(T) <= MaxLen}}
      [] kind = "dict" -> {Coll(kind, f) : f \in UNION {[K -> CleanVals] : K \in SUBSET (1..MaxLen)}}
      [] OTHER         -> {Coll(kind, Num(1))}

Switches ==
    [remove_NaN : BOOLEAN, remove_Inf : BOOLEAN, remove_NegInf : BOOLEAN,
     remove_negative : BOOLEAN, remove_zero : BOOLEAN]

----------------------------------------------------------------------------
(* The calls *)

NoArgs == [none |-> TRUE]

Init ==
    /\ fn = "none"
    /\ args = NoArgs
    /\ pc = "idle"
    /\ i = 0
    /\ vals = <<>>
    /\ policy = NoPolicy
    /\ exc = "none"
    /\ ret = <<>>
    /\ obj = EmptyDict
    /\ hist = NoHist

CallCleanNumber ==
    /\ pc = "idle"
    /\ \E val \in CleanVals, replace_NaN \in ReplVals, replace_Inf \in ReplVals,
          replace_NegInf \in ReplVals, make_positive \in BOOLEAN :
         /\ fn' = "clean_number"
         /\ args' = [val |-> val, replace_NaN |-> replace_NaN, replace_Inf |-> replace_Inf,
                     replace_NegInf |-> replace_NegInf, make_positive |-> make_positive]
         /\ ret' = <<clean_number(val, replace_NaN, replace_Inf, replace_NegInf,
                                  make_positive)>>
    /\ pc' = "done"
    /\ UNCHANGED <<i, vals, policy, exc, obj, hist>>

CallCleanData ==
    /\ pc = "idle"
    /\ \E kind \in Kinds :
       \E input_data \in CollsOf(kind) :
       \E order \in IterOrders(input_data) :
       \E replace_Inf \in {None, Num(999)}, replace_NegInf \in {None, Num(-999)},
          make_positive \in BOOLEAN :
         LET r == clean_data(input_data, order, Num(0), replace_Inf, replace_NegInf,
                             make_positive)
         IN  /\ fn' = "clean_data"
             /\ args' = [input_data |-> input_data, replace_NaN |-> Num(0),
                         replace_Inf |-> replace_Inf, replace_NegInf |-> replace_NegInf,
                         make_positive |-> make_positive]
             /\ exc' = r.exc
             /\ ret' = r.ret
             /\ policy' = r.policy
    /\ pc' = "done"
    /\ UNCHANGED <<i, vals, obj, hist>>

CallCleanDataRemove ==
    /\ pc = "idle"
    /\ \E kind \in Kinds :
       \E input_data \in CollsOf(kind) :
       \E sw \in Switches :
         LET r == clean_data_remove(input_data, sw)
         IN  /\ fn' = "clean_data_remove"
             /\ args' = [input_data |-> input_data, sw |-> sw]
             /\ exc' = r.exc
             /\ ret' = r.ret
    /\ pc' = "done"
    /\ UNCHANGED <<i, vals, policy, obj, hist>>

CallParseCutoffs ==
    /\ pc = "idle"
    /\ \E cutoff_list \in SeqsOver(CutoffVals), if_overlapping \in BOOLEAN :
         LET r == parse_cutoffs_into_ranges(cutoff_list, if_overlapping)
         IN  /\ fn' = "parse_cutoffs_into_ranges"
             /\ args' = [cutoff_list |-> cutoff_list, if_overlapping |-> if_overlapping]
             /\ exc' = r.exc
             /\ ret' = r.ret
    /\ pc' = "done"
    /\ UNCHANGED <<i, vals, policy, obj, hist>>

\* moving_average(data, window_size, return_indices) or moving_median(...) is entered
CallMoving ==
    /\ pc = "idle"
    /\ \E f \in {"moving_average", "moving_median"}, data \in SeqsOver(MovingVals),
          window_size \in (-1)..(MaxLen + 1), return_indices \in BOOLEAN :
         /\ fn' = f
         /\ args' = [data |-> data, window_size |-> window_size,
                     return_indices |-> return_indices]
    /\ pc' = "check"
    /\ UNCHANGED <<i, vals, policy, exc, ret, obj, hist>>

\* _check_input(data, window_size)
CheckInput ==
    /\ pc = "check"
    /\ IF _check_input(args.data, args.window_size)
       THEN exc' = "ValueError" /\ pc' = "done"
       ELSE exc' = exc /\ pc' = IF fn = "moving_average" THEN "seed" ELSE "loop"
    /\ UNCHANGED <<fn, args, i, vals, policy, ret, obj, hist>>

\* average_values = [first_average]
Seed ==
    /\ pc = "seed"
    /\ IF args.window_size = 0
       THEN exc' = "ZeroDivisionError" /\ pc' = "done" /\ vals' = vals
       ELSE /\ vals' = <<first_average(args.data, args.window_size)>>
            /\ pc' = "loop"
            /\ exc' = exc
    /\ UNCHANGED <<fn, args, i, policy, ret, obj, hist>>

\* one pass of moving_average's loop over range(len(data)-window_size)
AverageStep ==
    /\ pc = "loop"
    /\ fn = "moving_average"
    /\ i < Len(args.data) - args.window_size
    /\ vals' = Append(vals, new_average(vals[Len(vals)], args.data, i, args.window_size))
    /\ i' = i + 1
    /\ UNCHANGED <<fn, args, pc, policy, exc, ret, obj, hist>>

\* one pass of moving_median's loop over range(len(data)-window_size+1)
MedianStep ==
    /\ pc = "loop"
    /\ fn = "moving_median"
    /\ i < Len(args.data) - args.window_size + 1
    /\ vals' = Append(vals, median(slice(args.data, i, i + args.window_size)))
    /\ i' = i + 1
    /\ UNCHANGED <<fn, args, pc, policy, exc, ret, obj, hist>>

\* the loop is over: return the values, with the window indices if asked
ReturnValues ==
    /\ pc = "loop"
    /\ i >= Len(args.data) - args.window_size + (IF fn = "moving_median" THEN 1 ELSE 0)
    /\ ret' = IF args.return_indices
              THEN <<vals, _make_window_indices(args.data, args.window_size)>>
              ELSE <<vals>>
    /\ pc' = "done"
    /\ UNCHANGED <<fn, args, i, vals, policy, exc, obj, hist>>

\* the caller has the result (or the exception); the next call starts afresh
Finish ==
    /\ pc = "done"
    /\ fn' = "none"
    /\ args' = NoArgs
    /\ pc' = "idle"
    /\ i' = 0
    /\ vals' = <<>>
    /\ policy' = NoPolicy
    /\ exc' = "none"
    /\ ret' = <<>>
    /\ UNCHANGED <<obj, hist>>

\* an object of a subclass of FrozenClass is created, with no attribute of its own yet
NewObject ==
    /\ pc = "idle"
    /\ fn' = "FrozenClass"
    /\ args' = [op |-> "new", key |-> "", value |-> 0]
    /\ pc' = "object"
    /\ obj' = EmptyDict
    /\ hist' = NoHist
    /\ UNCHANGED <<i, vals, policy, exc, ret>>

\* obj.key = value
SetAttr ==
    /\ pc = "object"
    /\ \E key \in AttrNames, value \in AttrValues :
         LET r == __setattr__(obj, key, value)
         IN  /\ args' = [op |-> "setattr", key |-> key, value |-> value]
             /\ exc' = r.exc
             /\ obj' = r.dict
    /\ hist' = [hist EXCEPT !.before = obj,
                             !.flag_assigned = @ \/ (args.op = "setattr" /\ args.key = Flag)]
    /\ UNCHANGED <<fn, pc, i, vals, policy, ret>>

\* obj._freeze()
Freeze ==
    /\ pc = "object"
    /\ LET r == call_freeze(obj)
       IN  /\ args' = [op |-> "_freeze", key |-> "", value |-> 0]
           /\ exc' = r.exc
           /\ obj' = r.dict
           /\ hist' = [before |-> obj,
                       freeze_called |-> hist.freeze_called \/ r.exc = "none",
                       flag_assigned |-> hist.flag_assigned
                                          \/ (args.op = "setattr" /\ args.key = Flag)]
    /\ UNCHANGED <<fn, pc, i, vals, policy, ret>>

\* the object is dropped
Discard ==
    /\ pc = "object"
    /\ fn' = "none"
    /\ args' = NoArgs
    /\ pc' = "idle"
    /\ exc' = "none"
    /\ obj' = EmptyDict
    /\ hist' = NoHist
    /\ UNCHANGED <<i, vals, policy, ret>>

Next ==
    \/ CallCleanNumber
    \/ CallCleanData
    \/ CallCleanDataRemove
    \/ CallParseCutoffs
    \/ CallMoving
    \/ CheckInput
    \/ Seed
    \/ AverageStep
    \/ MedianStep
    \/ ReturnValues
    \/ Finish
    \/ NewObject
    \/ SetAttr
    \/ Freeze
    \/ Discard

Spec == Init /\ [][Next]_vars

----------------------------------------------------------------------------
(* Properties *)

Supported == {"list", "tuple", "set", "dict"}

\* the set of values a supported collection holds
ValuesOf(c) ==
    CASE c.kind \in {"list", "tuple"} -> {c.items[j] : j \in DOMAIN c.items}
      [] c.kind = "set"  -> c.items
      [] c.kind = "dict" -> {c.items[k] : k \in DOMAIN c.items}

\* a finite number that is < 0, = 0, > 0
FinNeg(x) == x.cls = "fin" /\ x.n < 0

FinZero(x) == x.cls = "fin" /\ x.n = 0

FinPos(x) == x.cls = "fin" /\ x.n > 0

\* the smallest of a non-empty set of finite numbers
LeastOf(Q) == CHOOSE c \in Q : \A y \in Q : c.n * y.d <= y.n * c.d

\* C1: clean_number returns replace_NegInf when val is -Infinity, whatever
\* the three replacement values and make_positive are.
C1_NegInfGivesReplaceNegInf ==
    (pc = "done" /\ fn = "clean_number" /\ args.val = NegInf)
        => ret = <<args.replace_NegInf>>

\* C2: for every val that is not -Infinity clean_number is first-match-wins:
\* NaN gives replace_NaN, +Infinity gives replace_Inf, a finite val <= 0 under
\* make_positive gives replace_NegInf, every other finite val is returned as is.
C2_FirstMatchWins ==
    (pc = "done" /\ fn = "clean_number" /\ args.val # NegInf)
        => ret = << CASE args.val.cls = "nan" -> args.replace_NaN
                      [] args.val.cls = "inf" -> args.replace_Inf
                      [] args.val.cls = "fin" /\ args.make_positive /\ args.val.n <= 0
                                              -> args.replace_NegInf
                      [] OTHER                -> args.val >>

\* clean_number has replaced a finite zero under make_positive
C2_Witness ==
    /\ pc = "done" /\ fn = "clean_number"
    /\ args.val = Num(0) /\ args.make_positive
    /\ args.replace_NegInf = Num(-999)
    /\ ret = <<Num(-999)>>

\* what C3 says clean_data_remove drops: each switch governs its own class
ClaimedDrop(x, sw) ==
    \/ x.cls = "nan" /\ sw.remove_NaN
    \/ x.cls = "inf" /\ sw.remove_Inf
    \/ x.cls = "neginf" /\ (sw.remove_NegInf \/ sw.remove_negative)
    \/ FinNeg(x) /\ sw.remove_negative
    \/ FinZero(x) /\ sw.remove_zero

\* C3: clean_data_remove returns exactly the elements (entries) that match no
\* enabled switch, in their order (with their keys), each switch governing
\* only its own class of value.
C3_RemovesExactlyTheSwitchedClasses ==
    (pc = "done" /\ fn = "clean_data_remove" /\ args.input_data.kind \in Supported)
        => LET c == args.input_data
               Kept(x) == ~ClaimedDrop(x, args.sw)
           IN  /\ exc = "none"
               /\ Len(ret) = 1
               /\ ret[1].kind = c.kind
               /\ CASE c.kind \in {"list", "tuple"} ->
                         ret[1].items = SelectSeq(c.items, Kept)
                    [] c.kind = "set" ->
                         ret[1].items = {x \in c.items : Kept(x)}
                    [] c.kind = "dict" ->
                         /\ DOMAIN ret[1].items = {k \in DOMAIN c.items : Kept(c.items[k])}
                         /\ \A k \in DOMAIN ret[1].items : ret[1].items[k] = c.items[k]

\* the arithmetic mean of the window data[k : k+W], computed directly
DirectMean(data, k, W) == DivInt(sum(slice(data, k, k + W)), W)

\* C4: every value moving_average builds by its recurrence is the direct mean
\* of its window: value k is the mean of data[k : k+W], in exact arithmetic.
C4_AverageIsWindowMean ==
    (fn = "moving_average" /\ pc \in {"loop", "done"} /\ exc = "none")
        => /\ \A k \in 0..(Len(vals) - 1) :
                 vals[k + 1] = DirectMean(args.data, k, args.window_size)
           /\ (pc = "done" => ret[1] = vals)

\* moving_average has returned several averages, not all equal, one not an integer
C4_Witness ==
    /\ fn = "moving_average" /\ pc = "done" /\ exc = "none"
    /\ Len(ret[1]) >= 2
    /\ args.window_size >= 2
    /\ \E k \in DOMAIN ret[1] : ret[1][k].d # 1
    /\ \E k \in DOMAIN ret[1] : ret[1][k] # ret[1][1]

\* C5: moving_average and moving_median each return L - W + 1 values, and with
\* return_indices also L - W + 1 center indices, index k being floor(W/2) + k;
\* the indices depend on (len(data), window_size) alone, so both functions
\* return the same ones.
C5_CountsAndIndices ==
    (fn \in {"moving_average", "moving_median"} /\ pc = "done" /\ exc = "none")
        => LET L == Len(args.data)
               W == args.window_size
           IN  /\ Len(ret) = IF args.return_indices THEN 2 ELSE 1
               /\ Len(ret[1]) = L - W + 1
               /\ args.return_indices =>
                    /\ Len(ret[2]) = L - W + 1
                    /\ \A k \in 0..(L - W) : ret[2][k + 1] = (W \div 2) + k

\* moving_median has returned several medians and their indices, for an odd window > 1
C5_Witness ==
    /\ fn = "moving_median" /\ pc = "done" /\ exc = "none"
    /\ args.return_indices
    /\ args.window_size = 3
    /\ Len(ret[1]) >= 1
    /\ ret[2][1] = 1

\* moving_average has returned several averages and their indices
C5_WitnessAverage ==
    /\ fn = "moving_average" /\ pc = "done" /\ exc = "none"
    /\ args.return_indices
    /\ args.window_size = 2
    /\ Len(ret[1]) = 2 /\ ret[2] = <<1, 2>>

\* C6: moving_average and moving_median raise ValueError exactly when
\* window_size < 1 or window_size > len(data) (empty data included), and they
\* raise it before any output value exists: nothing computed, nothing returned.
C6_WindowSizeChecked ==
    (fn \in {"moving_average", "moving_median"} /\ pc \notin {"idle", "check"})
        => /\ (exc = "ValueError")
                <=> (args.window_size < 1 \/ args.window_size > Len(args.data))
           /\ (exc # "none" => (vals = <<>> /\ ret = <<>> /\ pc = "done"))

\* the check has raised for empty data
C6_Witness ==
    /\ fn = "moving_median" /\ pc = "done"
    /\ args.data = <<>> /\ args.window_size = 1
    /\ exc = "ValueError" /\ ret = <<>>

\* the values of the collection clean_data derives replace_NegInf from,
\* as C7 and C8 put it: the finite ones, strictly positive under make_positive
Qualifying(c, make_positive) ==
    {x \in ValuesOf(c) : x.cls = "fin" /\ (make_positive => x.n > 0)}

\* C7: clean_data raises, and returns nothing, whenever a replacement it has
\* to derive has no finite value of the data to be derived from.
C7_RaisesWithoutFiniteValue ==
    (fn = "clean_data" /\ pc = "done" /\ args.input_data.kind \in Supported
       /\ \/ args.replace_NegInf = None
               /\ Qualifying(args.input_data, args.make_positive) = {}
          \/ args.replace_Inf = None /\ Qualifying(args.input_data, FALSE) = {})
        => (exc = "ValueError" /\ ret = <<>>)

\* C8: a replace_NegInf that is not supplied is derived from the smallest
\* qualifying finite value c of the data: 1.5 x c if c < 0, else 0.5 x c;
\* NaN and the infinities have no part in it.
C8_DerivedNegInf ==
    (fn = "clean_data" /\ pc = "done" /\ args.input_data.kind \in Supported
       /\ args.replace_NegInf = None
       /\ Qualifying(args.input_data, args.make_positive) # {})
        => LET c == LeastOf(Qualifying(args.input_data, args.make_positive))
           IN  policy.replace_NegInf
                 = IF c.n < 0 THEN Rat(3 * c.n, 2 * c.d) ELSE Rat(c.n, 2 * c.d)

\* replace_NegInf was derived from a negative minimum, among both infinities
C8_Witness ==
    /\ fn = "clean_data" /\ pc = "done" /\ exc = "none"
    /\ args.replace_NegInf = None /\ ~args.make_positive
    /\ {PosInf, NegInf, Num(-2)} \subseteq ValuesOf(args.input_data)
    /\ policy.replace_NegInf = Num(-3)

\* replace_NegInf was derived under make_positive from the smallest positive value
C8_WitnessPositive ==
    /\ fn = "clean_data" /\ pc = "done" /\ exc = "none"
    /\ args.replace_NegInf = None /\ args.make_positive
    /\ {Num(-2), Num(1), Num(3)} \subseteq ValuesOf(args.input_data)
    /\ policy.replace_NegInf = Rat(1, 2)

\* C9: clean_data_remove is idempotent: applied with the same switches to its
\* own output, it returns that output.
C9_RemoveIdempotent ==
    (fn = "clean_data_remove" /\ pc = "done" /\ exc = "none")
        => LET again == clean_data_remove(ret[1], args.sw)
           IN  again.exc = "none" /\ again.ret = ret

\* clean_data_remove has dropped some elements of a list and kept others
C9_Witness ==
    /\ fn = "clean_data_remove" /\ pc = "done" /\ exc = "none"
    /\ args.input_data.kind = "list"
    /\ Len(ret[1].items) >= 1
    /\ Len(ret[1].items) + 2 <= Len(args.input_data.items)

\* C10: clean_data on a list, tuple or dict returns the same kind with the same
\* positions (keys), each holding clean_number of the value the input holds
\* there, under the resolved policy.
C10_OnlyValuesChange ==
    (fn = "clean_data" /\ pc = "done" /\ exc = "none"
       /\ args.input_data.kind \in {"list", "tuple", "dict"})
        => LET c == args.input_data
               Cleaned(x) == clean_number(x, policy.replace_NaN, policy.replace_Inf,
                                          policy.replace_NegInf, args.make_positive)
           IN  /\ Len(ret) = 1
               /\ ret[1].kind = c.kind
               /\ DOMAIN ret[1].items = DOMAIN c.items
               /\ \A k \in DOMAIN c.items : ret[1].items[k] = Cleaned(c.items[k])

\* clean_data has cleaned a dict of several keys, replacing some values only
C10_Witness ==
    /\ fn = "clean_data" /\ pc = "done" /\ exc = "none"
    /\ args.input_data.kind = "dict"
    /\ Cardinality(DOMAIN args.input_data.items) >= 3
    /\ \E k, h \in DOMAIN ret[1].items :
          /\ ret[1].items[k] # args.input_data.items[k]
          /\ ret[1].items[h] = args.input_data.items[h]
          /\ ret[1].items[h] # ret[1].items[k]

\* C12: for a non-empty cutoff_list parse_cutoffs_into_ranges returns the
\* ranges (c, inf) of every cutoff c when if_overlapping, and otherwise the
\* ranges between adjacent cutoffs followed by (last cutoff, inf).
C12_RangesFollowIfOverlapping ==
    (fn = "parse_cutoffs_into_ranges" /\ pc = "done" /\ args.cutoff_list # <<>>)
        => LET c == args.cutoff_list
               n == Len(c)
           IN  /\ exc = "none"
               /\ Len(ret) = 1
               /\ ret[1].kind = "list"
               /\ Len(ret[1].items) = n
               /\ \A j \in 1..n :
                    ret[1].items[j] = IF args.if_overlapping \/ j = n
                                      THEN [vmin |-> c[j], vmax |-> PosInf]
                                      ELSE [vmin |-> c[j], vmax |-> c[j + 1]]

\* the greatest of a non-empty set of finite numbers
GreatestOf(Q) == CHOOSE c \in Q : \A y \in Q : y.n * c.d <= c.n * y.d

\* x <= y for finite numbers
FinLe(x, y) == x.cls = "fin" /\ y.cls = "fin" /\ x.n * y.d <= y.n * x.d

\* C13: the replacements clean_data derives from data with a finite value
\* bracket the data: the derived replace_NegInf is at most the least finite
\* value it was derived from, the derived replace_Inf at least the greatest
\* finite value, also when every finite value is negative.
C13_DerivedValuesBracketData ==
    (fn = "clean_data" /\ pc = "done" /\ args.input_data.kind \in Supported
       /\ args.replace_NegInf = None /\ args.replace_Inf = None
       /\ Qualifying(args.input_data, args.make_positive) # {})
        => /\ exc = "none"
           /\ FinLe(policy.replace_NegInf,
                    LeastOf(Qualifying(args.input_data, args.make_positive)))
           /\ FinLe(GreatestOf(Qualifying(args.input_data, FALSE)),
                    policy.replace_Inf)

\* what C11 says of the last assignment obj.key = value, given the object's
\* dictionary before it: once _freeze() has been called, a name the object
\* does not have raises TypeError and changes nothing, a name it has is
\* updated; before _freeze() is called every name can be assigned
AssignmentAsFrozenSays ==
    LET had == args.key \in DOMAIN hist.before \/ args.key \in ClassAttrs
        updated == /\ exc = "none"
                   /\ DOMAIN obj = DOMAIN hist.before \cup {args.key}
                   /\ obj[args.key] = args.value
                   /\ \A k \in DOMAIN hist.before \ {args.key} : obj[k] = hist.before[k]
    IN  IF hist.freeze_called /\ ~had
        THEN exc = "TypeError" /\ obj = hist.before
        ELSE updated

C11_WitnessUpdate ==
    /\ pc = "object" /\ args.op = "setattr" /\ ~hist.flag_assigned
    /\ hist.freeze_called
    /\ args.key = "x" /\ exc = "none"
    /\ hist.before["x"] = 0 /\ obj["x"] = 10
    /\ "z" \notin DOMAIN obj

====
